---- MODULE Spec2Model ----
(***************************************************************************)
(* A model of the wallet session manager (class WalletConnector): the      *)
(* connect / disconnect / reset / restore operations, the handlers of the  *)
(* backend notifications and the persisted session record, with every      *)
(* await of the source as a point where other operations interleave.       *)
(***************************************************************************)
EXTENDS Integers, Sequences, FiniteSets, TLC

\* ------------------------------------------------------------------ bounds
\* The number of external stimuli (API calls and backend notifications) of a run.
MaxOps == 3
\* The number of operations that may be waiting on a backend when a stimulus arrives.
MaxPending == 2
MaxListeners == 2

\* ------------------------------------------------------------- vocabulary
HASHPACK == "hashpack"
METAMASK == "metamask"
WALLETCONNECT == "walletconnect"
WalletType == {HASHPACK, METAMASK, WALLETCONNECT}

\* HEDERA_NETWORKS.testnet.chainId, also the default of NEXT_PUBLIC_METAMASK_CHAIN_ID
TestnetChainId == 296
ExpectedChainIdHex == "0x128"

EvmAccounts == {"0xABC1", "0xdef2"}
HederaAccounts == {"0.0.1001"}
Balances == {"1.5"}

\* String.prototype.toLowerCase on the addresses of the model
ToLower(a) ==
    IF a = "0xABC1" THEN "0xabc1" ELSE a

\* `this.connection === null`
NoConn ==
    [type |-> "null", accountId |-> "", address |-> "", signer |-> "none",
     provider |-> "none", balance |-> "", network |-> "", chainId |-> 0]

\* localStorage content that JSON.parse rejects
Garbage ==
    [NoConn EXCEPT !.type = "garbage"]

VARIABLES
    connection,          \* this.connection
    stored,              \* localStorage['talentchain_wallet_connection'] (NoConn: absent)
    emitted,             \* the emit() calls of the last step, in order
    tasks,               \* the operations waiting on a backend reply, in start order
    done,                \* the operations the last step completed, with their outcome
    listeners,           \* this.listeners: event name -> sequence of subscribers
    ethereum,            \* window.ethereum?.isMetaMask
    mmListeners,         \* listener pairs registered on window.ethereum
    wcProvider,          \* this.walletConnectProvider: 0 (null) or a provider object
    wcObjs,              \* per provider object created: listener triples registered on it
    hashPackConnector,   \* this.hashPackConnector !== null
    hederaWCProvider,    \* this.hederaWalletConnectProvider !== null
    env,                 \* the NEXT_PUBLIC_* variables are set
    ops,                 \* external stimuli so far
    ui,                  \* the React state of AuthProvider (useAuth.tsx)
    dash                 \* the auto-refresh effect of useDashboardData and document.hidden

vars ==
    <<connection, stored, emitted, tasks, done, listeners, ethereum, mmListeners,
      wcProvider, wcObjs, hashPackConnector, hederaWCProvider, env, ops, ui, dash>>

\* The mutable fields of the manager and of the backends it registered with,
\* as one value the operations transform; a step starts with nothing emitted and
\* nothing completed.
Cur ==
    [connection |-> connection, stored |-> stored, emitted |-> <<>>,
     tasks |-> tasks, done |-> <<>>, mmListeners |-> mmListeners, wcProvider |-> wcProvider,
     wcObjs |-> wcObjs, hashPackConnector |-> hashPackConnector,
     hederaWCProvider |-> hederaWCProvider]

Becomes(s) ==
    /\ connection' = s.connection
    /\ stored' = s.stored
    /\ emitted' = s.emitted
    /\ tasks' = s.tasks
    /\ done' = s.done
    /\ mmListeners' = s.mmListeners
    /\ wcProvider' = s.wcProvider
    /\ wcObjs' = s.wcObjs
    /\ hashPackConnector' = s.hashPackConnector
    /\ hederaWCProvider' = s.hederaWCProvider

EventNames ==
    {"connected", "disconnected", "accountsChanged", "chainChanged",
     "networkMismatch", "accountChanged"}

\* ------------------------------------------------------------ persistence
\* JSON.stringify(this.connection): the signer and provider objects are written
\* as plain data, so what comes back from JSON.parse has none of their methods.
Serialize(c) ==
    [c EXCEPT !.signer = IF @ = "none" THEN "none" ELSE "dead",
              !.provider = IF @ = "none" THEN "none" ELSE "dead"]

SaveConnection(s) ==
    IF s.connection # NoConn
    THEN [s EXCEPT !.stored = Serialize(s.connection)]
    ELSE s

ClearSavedConnection(s) ==
    [s EXCEPT !.stored = NoConn]

\* ---------------------------------------------------------------- event bus
\* emit(): listeners[event].forEach(callback => callback(data)); a subscriber that
\* throws ends the forEach and the exception leaves emit.
EmitThrows(name) ==
    \E k \in DOMAIN listeners[name] : listeners[name][k] = "throw"

\* on(event, callback): this.listeners[event].push(callback)
On(ls, event, cb) ==
    [ls EXCEPT ![event] = Append(@, cb)]

\* off(event, callback): this.listeners[event].filter(cb => cb !== callback)
Off(ls, event, cb) ==
    [ls EXCEPT ![event] = SelectSeq(@, LAMBDA x : x # cb)]

\* The callback on() and off() are called with by the subscribers that change the
\* registrations while they are being called.
Target == "ok2"

\* forEach, were it to visit the elements pushed on the array while it runs
RECURSIVE ForEachLive(_, _, _, _, _, _)
ForEachLive(arr, cur, same, k, n, called) ==
    IF k > Len(arr) THEN [called |-> called, listeners |-> cur]
    ELSE LET cb == arr[k]
             seen == Append(called, cb)
         IN  CASE cb = "throw" -> [called |-> seen, listeners |-> cur]
               [] cb = "remover" ->
                     ForEachLive(arr, SelectSeq(cur, LAMBDA x : x # Target), FALSE, k + 1, n, seen)
               [] cb = "adder" ->
                     ForEachLive(IF same THEN Append(arr, Target) ELSE arr,
                                 Append(cur, Target), same, k + 1, n, seen)
               [] OTHER -> ForEachLive(arr, cur, same, k + 1, n, seen)

\* this.listeners[event].forEach(callback => callback(data)) on the array arr, with
\* cur the array this.listeners[event] names by now and same telling whether that is
\* still arr: forEach visits the first n elements of arr, n being its length when
\* forEach was called, and ends at the first callback that throws. A "remover"
\* calls off(event, Target), which binds a filtered copy; an "adder" calls
\* on(event, Target), which pushes on the array bound at that moment.
RECURSIVE ForEach(_, _, _, _, _, _)
ForEach(arr, cur, same, k, n, called) ==
    IF k > n THEN [called |-> called, listeners |-> cur]
    ELSE LET cb == arr[k]
             seen == Append(called, cb)
         IN  CASE cb = "throw" -> [called |-> seen, listeners |-> cur]
               [] cb = "remover" ->
                     ForEach(arr, SelectSeq(cur, LAMBDA x : x # Target), FALSE, k + 1, n, seen)
               [] cb = "adder" ->
                     ForEach(IF same THEN Append(arr, Target) ELSE arr,
                             Append(cur, Target), same, k + 1, n, seen)
               [] OTHER -> ForEach(arr, cur, same, k + 1, n, seen)

\* emit(name) on the registrations ls: the callbacks it calls, in order, and the
\* array registered for name when it returns.
Publish(ls, name) ==
    ForEach(ls[name], ls[name], TRUE, 1, Len(ls[name]), <<>>)

Calls(name) == Publish(listeners, name).called

\* Whether signMessage on connection c would reach the backend.
HandleOf(s, c) ==
    IF c.type = HASHPACK
    THEN (IF s.hederaWCProvider THEN "live" ELSE "none")
    ELSE c.signer

\* What a listener called by emit() finds when it asks the manager and the store:
\* getConnection() and localStorage['talentchain_wallet_connection'].
Seen(s) ==
    [connection |-> s.connection, stored |-> s.stored]

Event(name, payload, accs, chain, by, handle, called, seen) ==
    [name |-> name, payload |-> payload, accs |-> accs, chain |-> chain,
     expected |-> "", by |-> by, handle |-> handle, called |-> called, seen |-> seen]

Emit(s, name, payload, by) ==
    [s EXCEPT !.emitted = Append(@, Event(name, payload, <<>>, "", by, HandleOf(s, payload), Calls(name), Seen(s)))]

\* emit() in the constructor, when this.listeners is still empty
EmitUnheard(s, name, payload, by) ==
    [s EXCEPT !.emitted = Append(@, Event(name, payload, <<>>, "", by, HandleOf(s, payload), <<>>, Seen(s)))]

EmitAccounts(s, accs) ==
    [s EXCEPT !.emitted = Append(@, Event("accountsChanged", NoConn, accs, "", "backend", "none",
                                           Calls("accountsChanged"), Seen(s)))]

\* emit('chainChanged', chainIdStr) from the listener of backend `by`
EmitChain(s, chain, by) ==
    [s EXCEPT !.emitted = Append(@, Event("chainChanged", NoConn, <<>>, chain, by, "none",
                                           Calls("chainChanged"), Seen(s)))]

\* emit('networkMismatch', { current, expected })
EmitNetworkMismatch(s, current, expected, by) ==
    [s EXCEPT !.emitted =
        Append(@, [Event("networkMismatch", NoConn, <<>>, current, by, "none",
                         Calls("networkMismatch"), Seen(s))
                      EXCEPT !.expected = expected])]

\* ------------------------------------------------------------------- tasks
Task(op, type, pc, src, s) ==
    [op |-> op, type |-> type, pc |-> pc, src |-> src, acct |-> "", bal |-> "",
     conn |-> NoConn, err |-> "", why |-> "", ret |-> "", read |-> "none", raised |-> "",
     route |-> "",
     hadSession |-> s.connection # NoConn,
     hadSigner |-> IF op \in {"connect", "disconnect", "update", "signMessage", "sendTransaction"} THEN s.connection.signer ELSE "none",
     overlap |-> op = "connect" /\ \E j \in DOMAIN s.tasks : s.tasks[j].op = "connect"]

Spawn(s, t) ==
    [s EXCEPT !.tasks = Append(@, t)]

Without(seq, i) ==
    [k \in 1..(Len(seq) - 1) |-> IF k < i THEN seq[k] ELSE seq[k + 1]]

\* The operation ends: it leaves the waiting tasks and its outcome is recorded.
Finish(s, i, pc, err) ==
    [s EXCEPT !.tasks = Without(@, i),
              !.done = Append(@, [s.tasks[i] EXCEPT !.pc = pc, !.err = err])]

Resolve(s, i) ==
    Finish(s, i, "resolved", "")

Reject(s, i, err) ==
    Finish(s, i, "rejected", err)

Goto(s, i, pc) ==
    [s EXCEPT !.tasks[i].pc = pc]

\* ----------------------------------------------------------------- errors
ErrBackend == "backend failure"
ErrSubscriber == "subscriber failure"
ErrTypeError == "TypeError"
ErrNotInstalled == "MetaMask is not installed. Please install MetaMask extension."
ErrUserRejected == "User rejected the request."
ErrTimeout == "MetaMask connection timeout. Please try again."
ErrNoAccountsRaw == "No accounts found. Please make sure you have accounts in MetaMask."
ErrNoAccountsMM == "No accounts found in MetaMask. Please add an account and try again."
ErrRejectedMM == "MetaMask connection was rejected. Please approve the connection request."
ErrConfig == "Configuration error: Missing required environment variables. Please check your .env.local file."
ErrNoSigners == "No signers available after connection"
ErrNoProjectId == "WalletConnect Project ID is missing. Please check your environment variables."
ErrNoRequest == "WalletConnect provider request method not available"
ErrNoAccountsWC == "No accounts found"
ErrUnknownChain == "4902"
ErrNoWallet == "No wallet connected"
ErrHashPackSign == "Failed to sign message with HashPack"
ErrHashPackTx == "Failed to send transaction with HashPack"
ErrHashPackUnavailable == "HashPack WalletConnect provider not available"
ErrNoSignerSign == "No signer available for message signing"
ErrNoSignerTx == "No signer available for transaction signing"
ErrNullReceipt == "Transaction receipt is null"

\* String.prototype.includes for the needles the catch block of connectMetaMask uses
Includes(msg, needle) ==
    CASE needle = "rejected" -> msg \in {ErrUserRejected, ErrRejectedMM}
      [] needle = "timeout" -> msg = ErrTimeout
      [] needle = "No accounts found" -> msg \in {ErrNoAccountsRaw, ErrNoAccountsMM, ErrNoAccountsWC}
      [] OTHER -> FALSE

\* The catch block of connectMetaMask: the error the caller gets for the error thrown.
MetaMaskCatch(err) ==
    IF Includes(err, "rejected") THEN ErrRejectedMM
    ELSE IF Includes(err, "timeout") THEN ErrTimeout
    ELSE IF Includes(err, "No accounts found") THEN ErrNoAccountsMM
    ELSE IF ~env THEN ErrConfig
    ELSE err

\* ---------------------------------------------------------- backend replies
Reply(ok, accs, chain, bal, err) ==
    [ok |-> ok, accs |-> accs, chain |-> chain, bal |-> bal, err |-> err]

Ok == Reply(TRUE, <<>>, "", "", "")
Err(e) == Reply(FALSE, <<>>, "", "", e)
OkAccs(S) == {Reply(TRUE, <<>>, "", "", "")} \cup {Reply(TRUE, <<a>>, "", "", "") : a \in S}
OkBal == {Reply(TRUE, <<>>, "", b, "") : b \in Balances}
OkChain(S) == {Reply(TRUE, <<>>, c, "", "") : c \in S}
\* tx.wait() resolving to null
NullReceipt == Reply(TRUE, <<>>, "", "null", "")

\* What the backend can answer to the request a task is waiting on.
Replies(pc) ==
    CASE pc \in {"hp_init", "wc_init", "mm_probe", "mm_add", "dc_teardown",
                 "mm_signer", "wc_signer", "up_signer", "rs_signer"} ->
            {Ok, Err(ErrBackend)}
      [] pc = "hp_ext" -> OkAccs(HederaAccounts) \cup {Err(ErrUserRejected)}
      [] pc = "mm_accounts" -> OkAccs(EvmAccounts) \cup {Err(ErrUserRejected), Err(ErrTimeout)}
      [] pc = "wc_connect" -> {Ok, Err(ErrUserRejected)}
      [] pc = "wc_accounts" -> OkAccs(EvmAccounts) \cup {Err(ErrBackend)}
      [] pc = "rs_accounts" ->
            OkAccs(EvmAccounts \cup {ToLower(a) : a \in EvmAccounts}) \cup {Err(ErrBackend)}
      [] pc = "mm_chain" -> OkChain({ExpectedChainIdHex, "0x1"}) \cup {Err(ErrBackend)}
      [] pc = "mm_switch" -> {Ok, Err(ErrUnknownChain), Err(ErrBackend)}
      [] pc \in {"hp_balance", "mm_balance", "wc_balance", "up_balance", "rs_balance",
                 "ch_balance", "ck_balance", "gb_balance", "gb_query"} ->
            OkBal \cup {Err(ErrBackend)}
      [] pc \in {"ch_accounts", "ck_health"} -> OkAccs(EvmAccounts) \cup {Err(ErrBackend)}
      [] pc = "ck_accounts" ->
            OkAccs(EvmAccounts \cup {ToLower(a) : a \in EvmAccounts}) \cup {Err(ErrBackend)}
      [] pc \in {"sg_hashpack", "sg_signer", "tx_hashpack", "tx_execute", "tx_send"} ->
            {Ok, Err(ErrBackend), Err(ErrUserRejected)}
      [] pc = "tx_wait" -> {Ok, NullReceipt, Err(ErrBackend)}
      [] pc = "cr_accounts" ->
            OkAccs(EvmAccounts \cup {ToLower(a) : a \in EvmAccounts}) \cup {Err(ErrBackend)}
      [] OTHER -> {}

\* The backend call a task at pc is waiting on, by the name the code calls it with.
RequestOf(pc) ==
    CASE pc = "hp_init" -> "init"
      [] pc = "hp_ext" -> "connectExtension"
      [] pc \in {"mm_probe", "mm_chain"} -> "eth_chainId"
      [] pc = "mm_accounts" -> "eth_requestAccounts"
      [] pc = "mm_switch" -> "wallet_switchEthereumChain"
      [] pc = "mm_add" -> "wallet_addEthereumChain"
      [] pc = "wc_init" -> "EthereumProvider.init"
      [] pc = "wc_connect" -> "connect"
      [] pc \in {"wc_accounts", "ch_accounts", "cr_accounts", "rs_accounts", "ck_accounts",
                 "ck_health"} -> "eth_accounts"
      [] pc \in {"mm_signer", "wc_signer", "up_signer", "rs_signer"} -> "getSigner"
      [] pc \in {"hp_balance", "mm_balance", "wc_balance", "up_balance", "rs_balance",
                 "ch_balance", "ck_balance", "gb_balance"} -> "getBalance"
      [] pc = "gb_query" -> "AccountBalanceQuery.execute"
      [] pc = "dc_teardown" -> "disconnect"
      [] pc = "sg_hashpack" -> "sign"
      [] pc = "sg_signer" -> "signMessage"
      [] pc = "tx_hashpack" -> "signTransaction"
      [] pc = "tx_execute" -> "execute"
      [] pc = "tx_send" -> "sendTransaction"
      [] pc = "tx_wait" -> "wait"
      [] OTHER -> "none"

\* The requests that make the wallet open a dialog for the user.
Prompting ==
    {"eth_requestAccounts", "wallet_switchEthereumChain", "wallet_addEthereumChain",
     "connect", "connectExtension"}

\* ---------------------------------------------------------------- listeners
\* setupMetaMaskListeners: ethereum.on('accountsChanged'), ethereum.on('chainChanged')
SetupMetaMaskListeners(s) ==
    IF ethereum THEN [s EXCEPT !.mmListeners = @ + 1] ELSE s

\* setupWalletConnectListeners: three provider.on() calls on the current provider
SetupWalletConnectListeners(s) ==
    IF s.wcProvider # 0 THEN [s EXCEPT !.wcObjs[s.wcProvider] = @ + 1] ELSE s

\* ------------------------------------------------------------------ connect
HashPackConnection(acct, bal) ==
    [type |-> HASHPACK, accountId |-> acct, address |-> acct, signer |-> "none",
     provider |-> "none", balance |-> bal, network |-> "testnet",
     chainId |-> TestnetChainId]

MetaMaskConnection(acct, bal) ==
    [type |-> METAMASK, accountId |-> acct, address |-> acct, signer |-> "live",
     provider |-> "live", balance |-> bal, network |-> "testnet",
     chainId |-> TestnetChainId]

WalletConnectConnection(acct, bal) ==
    [type |-> WALLETCONNECT, accountId |-> acct, address |-> acct, signer |-> "live",
     provider |-> "live", balance |-> bal, network |-> "testnet",
     chainId |-> TestnetChainId]

\* Establish without the saveConnection() call
EstablishUnsaved(s, i, c) ==
    Emit([s EXCEPT !.connection = c, !.tasks[i].conn = c], "connected", c, "connect")

\* Establish publishing `connected` before it sets and saves the session
EstablishPublishingFirst(s, i, c) ==
    SaveConnection([Emit(s, "connected", c, "connect") EXCEPT !.connection = c, !.tasks[i].conn = c])

\* this.connection = connection; this.saveConnection(); this.emit('connected', connection)
Establish(s, i, c) ==
    Emit(SaveConnection([s EXCEPT !.connection = c, !.tasks[i].conn = c]), "connected", c, "connect")

\* connectHashPackWalletConnect from the balance reply on
HashPackFinish(s, i, bal) ==
    LET s1 == Establish(s, i, HashPackConnection(s.tasks[i].acct, bal))
    IN  IF EmitThrows("connected") THEN Reject(s1, i, ErrSubscriber) ELSE Resolve(s1, i)

\* connectMetaMask from the balance reply on
MetaMaskFinish(s, i, bal) ==
    LET s1 == Establish(s, i, MetaMaskConnection(s.tasks[i].acct, bal))
    IN  IF EmitThrows("connected")
        THEN Reject(s1, i, MetaMaskCatch(ErrSubscriber))
        ELSE Resolve(SetupMetaMaskListeners(s1), i)

\* connectWalletConnect from the balance reply on
WalletConnectFinish(s, i, bal) ==
    LET s1 == Establish(s, i, WalletConnectConnection(s.tasks[i].acct, bal))
    IN  IF EmitThrows("connected")
        THEN Reject(s1, i, ErrSubscriber)
        ELSE Resolve(SetupWalletConnectListeners(s1), i)

\* connect(walletType) up to its first await
ConnectStart(s, t) ==
    LET i == Len(s.tasks) + 1
    IN  CASE t = HASHPACK ->
                Spawn([s EXCEPT !.hashPackConnector = TRUE], Task("connect", t, "hp_init", "api", s))
          [] t = METAMASK ->
                IF ~ethereum
                THEN Reject(Spawn(s, Task("connect", t, "start", "api", s)), i,
                            MetaMaskCatch(ErrNotInstalled))
                ELSE Spawn(s, Task("connect", t, "mm_probe", "api", s))
          [] t = WALLETCONNECT ->
                IF ~env
                THEN Reject(Spawn(s, Task("connect", t, "start", "api", s)), i, ErrNoProjectId)
                ELSE Spawn(s, Task("connect", t,
                                   IF s.wcProvider = 0 THEN "wc_init" ELSE "wc_connect",
                                   "api", s))

\* connectHashPackWalletConnect resumed by the reply r
HashPackStep(s, i, r) ==
    LET pc == s.tasks[i].pc
    IN  CASE pc = "hp_init" ->
                IF ~r.ok THEN Reject(s, i, r.err)
                ELSE IF ~s.hashPackConnector THEN Reject(s, i, ErrTypeError)
                ELSE Goto(s, i, "hp_ext")
          [] pc = "hp_ext" ->
                IF ~r.ok THEN Reject(s, i, r.err)
                ELSE IF ~s.hashPackConnector THEN Reject(s, i, ErrTypeError)
                ELSE IF r.accs = <<>> THEN Reject(s, i, ErrNoSigners)
                ELSE Goto([s EXCEPT !.hederaWCProvider = TRUE, !.tasks[i].acct = r.accs[1]],
                          i, "hp_balance")
          [] pc = "hp_balance" ->
                HashPackFinish(s, i, IF r.ok THEN r.bal ELSE "0")

\* The state of the network check: "mismatch" (switch requested), "unknown"
\* (add-chain requested), or "verified" (the chain matched, or the switch or the
\* add-chain request succeeded).
Route(s, i, route) ==
    [s EXCEPT !.tasks[i].route = route]

\* connectMetaMask resumed by the reply r, were a failed switch request only logged
MetaMaskStepIgnoringSwitchFailure(s, i, r) ==
    LET pc == s.tasks[i].pc
    IN  CASE pc = "mm_probe" -> Goto(s, i, "mm_accounts")
          [] pc = "mm_accounts" ->
                IF ~r.ok THEN Reject(s, i, MetaMaskCatch(r.err))
                ELSE IF r.accs = <<>> THEN Reject(s, i, MetaMaskCatch(ErrNoAccountsRaw))
                ELSE Goto([s EXCEPT !.tasks[i].acct = r.accs[1]], i, "mm_chain")
          [] pc = "mm_chain" ->
                IF ~r.ok THEN Reject(s, i, MetaMaskCatch(r.err))
                ELSE IF r.chain # ExpectedChainIdHex THEN Goto(Route(s, i, "mismatch"), i, "mm_switch")
                ELSE Goto(Route(s, i, "verified"), i, "mm_signer")
          [] pc = "mm_switch" ->
                IF r.ok THEN Goto(Route(s, i, "verified"), i, "mm_signer")
                ELSE IF r.err = ErrUnknownChain THEN Goto(Route(s, i, "unknown"), i, "mm_add")
                ELSE Goto(s, i, "mm_signer")
          [] pc = "mm_add" ->
                IF r.ok THEN Goto(Route(s, i, "verified"), i, "mm_signer")
                ELSE Reject(s, i, MetaMaskCatch(r.err))
          [] pc = "mm_signer" ->
                IF r.ok THEN Goto(s, i, "mm_balance") ELSE Reject(s, i, MetaMaskCatch(r.err))
          [] pc = "mm_balance" ->
                IF r.ok THEN MetaMaskFinish(s, i, r.bal) ELSE Reject(s, i, MetaMaskCatch(r.err))

\* connectMetaMask resumed by the reply r
MetaMaskStep(s, i, r) ==
    LET pc == s.tasks[i].pc
    IN  CASE pc = "mm_probe" -> Goto(s, i, "mm_accounts")
          [] pc = "mm_accounts" ->
                IF ~r.ok THEN Reject(s, i, MetaMaskCatch(r.err))
                ELSE IF r.accs = <<>> THEN Reject(s, i, MetaMaskCatch(ErrNoAccountsRaw))
                ELSE Goto([s EXCEPT !.tasks[i].acct = r.accs[1]], i, "mm_chain")
          [] pc = "mm_chain" ->
                IF ~r.ok THEN Reject(s, i, MetaMaskCatch(r.err))
                ELSE IF r.chain # ExpectedChainIdHex THEN Goto(Route(s, i, "mismatch"), i, "mm_switch")
                ELSE Goto(Route(s, i, "verified"), i, "mm_signer")
          [] pc = "mm_switch" ->
                IF r.ok THEN Goto(Route(s, i, "verified"), i, "mm_signer")
                ELSE IF r.err = ErrUnknownChain THEN Goto(Route(s, i, "unknown"), i, "mm_add")
                ELSE Reject(s, i, MetaMaskCatch(r.err))
          [] pc = "mm_add" ->
                IF r.ok THEN Goto(Route(s, i, "verified"), i, "mm_signer")
                ELSE Reject(s, i, MetaMaskCatch(r.err))
          [] pc = "mm_signer" ->
                IF r.ok THEN Goto(s, i, "mm_balance") ELSE Reject(s, i, MetaMaskCatch(r.err))
          [] pc = "mm_balance" ->
                IF r.ok THEN MetaMaskFinish(s, i, r.bal) ELSE Reject(s, i, MetaMaskCatch(r.err))

\* connectWalletConnect resumed by the reply r
WalletConnectStep(s, i, r) ==
    LET pc == s.tasks[i].pc
    IN  CASE pc = "wc_init" ->
                IF ~r.ok THEN Reject(s, i, r.err)
                ELSE Goto([s EXCEPT !.wcObjs = Append(@, 0), !.wcProvider = Len(s.wcObjs) + 1],
                          i, "wc_connect")
          [] pc = "wc_connect" ->
                IF ~r.ok THEN Reject(s, i, r.err)
                ELSE IF s.wcProvider = 0 THEN Reject(s, i, ErrNoRequest)
                ELSE Goto(s, i, "wc_accounts")
          [] pc = "wc_accounts" ->
                IF ~r.ok THEN Reject(s, i, r.err)
                ELSE IF r.accs = <<>> THEN Reject(s, i, ErrNoAccountsWC)
                ELSE IF s.wcProvider = 0 THEN Reject(s, i, ErrTypeError)
                ELSE Goto([s EXCEPT !.tasks[i].acct = r.accs[1]], i, "wc_signer")
          [] pc = "wc_signer" ->
                IF r.ok THEN Goto(s, i, "wc_balance") ELSE Reject(s, i, r.err)
          [] pc = "wc_balance" ->
                IF r.ok THEN WalletConnectFinish(s, i, r.bal) ELSE Reject(s, i, r.err)

\* --------------------------------------------------------------- disconnect
\* DisconnectBranch without the `if (this.connection)` guard
DisconnectBranchUnguarded(c, wcp) ==
    IF c.type = HASHPACK THEN "hashpack"
    ELSE IF c.type = WALLETCONNECT /\ wcp # 0 THEN "teardown"
    ELSE IF c.type = METAMASK THEN "metamask"
    ELSE "plain"

\* The branch disconnect() takes for the current connection.
DisconnectBranch(c, wcp) ==
    IF c = NoConn THEN "noop"
    ELSE IF c.type = HASHPACK THEN "hashpack"
    ELSE IF c.type = WALLETCONNECT /\ wcp # 0 THEN "teardown"
    ELSE IF c.type = METAMASK THEN "metamask"
    ELSE "plain"

\* DisconnectFinish publishing `disconnected` before it clears the session
DisconnectFinishPublishingFirst(s, i, c) ==
    LET s1 == Emit(s, "disconnected", c, "disconnect")
        s2 == ClearSavedConnection([s1 EXCEPT !.connection = NoConn])
        s3 == IF c.type = METAMASK THEN [s2 EXCEPT !.wcProvider = 0] ELSE s2
    IN  IF EmitThrows("disconnected") THEN Reject(s3, i, ErrSubscriber) ELSE Resolve(s3, i)

\* disconnect() from "Clear connection state" on; c is the connection captured on entry
DisconnectFinish(s, i, c) ==
    LET s1 == ClearSavedConnection([s EXCEPT !.connection = NoConn])
        s2 == IF c.type = METAMASK THEN [s1 EXCEPT !.wcProvider = 0] ELSE s1
        s3 == Emit(s2, "disconnected", c, "disconnect")
    IN  IF EmitThrows("disconnected") THEN Reject(s3, i, ErrSubscriber) ELSE Resolve(s3, i)

\* disconnect() up to its await (src: who called it)
Disconnect(s, src) ==
    LET i == Len(s.tasks) + 1
        c == s.connection
        b == DisconnectBranch(c, s.wcProvider)
        s0 == Spawn(s, [Task("disconnect", c.type, "start", src, s) EXCEPT !.conn = c])
    IN  CASE b = "noop" -> Resolve(s0, i)
          [] b = "teardown" -> Goto(s0, i, "dc_teardown")
          [] b = "metamask" ->
                DisconnectFinish(IF ethereum THEN [s0 EXCEPT !.mmListeners = 0] ELSE s0, i, c)
          [] OTHER -> DisconnectFinish(s0, i, c)

\* disconnect() resumed by the reply of walletConnectProvider.disconnect()
DisconnectStep(s, i, r) ==
    IF r.ok THEN DisconnectFinish(s, i, s.tasks[i].conn) ELSE Reject(s, i, r.err)

\* resetConnectionState() without its clearSavedConnection() call
ResetConnectionStateKeepingStore(s) ==
    LET i == Len(s.tasks) + 1
        s0 == Spawn(s, Task("reset", "null", "start", "api", s))
        s1 == [s0 EXCEPT !.connection = NoConn, !.wcProvider = 0,
                         !.hashPackConnector = FALSE, !.hederaWCProvider = FALSE]
        s2 == Emit(s1, "disconnected", NoConn, "reset")
    IN  IF EmitThrows("disconnected") THEN Reject(s2, i, ErrSubscriber) ELSE Resolve(s2, i)

\* resetConnectionState(), were it to publish only when a session was active
ResetConnectionStateQuietWhenIdle(s) ==
    LET i == Len(s.tasks) + 1
        s0 == Spawn(s, Task("reset", "null", "start", "api", s))
        s1 == ClearSavedConnection(
                [s0 EXCEPT !.connection = NoConn, !.wcProvider = 0,
                           !.hashPackConnector = FALSE, !.hederaWCProvider = FALSE])
        s2 == IF s.connection # NoConn THEN Emit(s1, "disconnected", NoConn, "reset") ELSE s1
    IN  IF s.connection # NoConn /\ EmitThrows("disconnected")
        THEN Reject(s2, i, ErrSubscriber)
        ELSE Resolve(s2, i)

\* resetConnectionState()
ResetConnectionState(s) ==
    LET i == Len(s.tasks) + 1
        s0 == Spawn(s, Task("reset", "null", "start", "api", s))
        s1 == ClearSavedConnection(
                [s0 EXCEPT !.connection = NoConn, !.wcProvider = 0,
                           !.hashPackConnector = FALSE, !.hederaWCProvider = FALSE])
        s2 == Emit(s1, "disconnected", NoConn, "reset")
    IN  IF EmitThrows("disconnected") THEN Reject(s2, i, ErrSubscriber) ELSE Resolve(s2, i)

\* --------------------------------------------------------- updateConnection
\* { ...this.connection, accountId, address, signer, balance }
UpdatedConnection(c, acct, bal) ==
    IF c = NoConn
    THEN [NoConn EXCEPT !.type = "undefined", !.accountId = acct, !.address = acct,
                        !.signer = "live", !.balance = bal]
    ELSE [c EXCEPT !.accountId = acct, !.address = acct, !.signer = "live", !.balance = bal]

\* updateConnection(newAccount) up to its first await
UpdateConnection(s, acct) ==
    LET i == Len(s.tasks) + 1
        s0 == Spawn(s, [Task("update", s.connection.type, "start", "accountsChanged", s)
                            EXCEPT !.acct = acct])
    IN  IF s.connection = NoConn THEN Resolve(s0, i)
        ELSE IF s.connection.type = METAMASK /\ s.connection.provider = "live"
        THEN Goto(s0, i, "up_signer")
        ELSE Resolve(s0, i)

\* updateConnection resumed by the reply r; every failure is caught and logged
UpdateStep(s, i, r) ==
    LET pc == s.tasks[i].pc
        failed == [s EXCEPT !.tasks[i].read = "failed"]
    IN  CASE pc = "up_signer" ->
                IF ~r.ok THEN Resolve(failed, i)
                ELSE IF s.connection = NoConn \/ s.connection.provider # "live" THEN Resolve(s, i)
                ELSE Goto(s, i, "up_balance")
          [] pc = "up_balance" ->
                IF ~r.ok THEN Resolve(failed, i)
                ELSE LET u == UpdatedConnection(s.connection, s.tasks[i].acct, r.bal)
                     IN  Resolve(Emit(SaveConnection([s EXCEPT !.connection = u, !.tasks[i].conn = u]),
                                      "accountChanged", u, "update"), i)

\* ------------------------------------------------------------------ restore
\* { ...this.connection!, signer, provider, balance }
RestoredConnection(c, bal) ==
    IF c = NoConn
    THEN [NoConn EXCEPT !.type = "undefined", !.signer = "live", !.provider = "live",
                        !.balance = bal]
    ELSE [c EXCEPT !.signer = "live", !.provider = "live", !.balance = bal]

RestoreEnd(s, i, why) ==
    Resolve([s EXCEPT !.tasks[i].why = why], i)

\* restoreMetaMaskConnection, were it to ask for the accounts as connectMetaMask does
RestoreMetaMaskStartPrompting(s, i) ==
    IF ~ethereum THEN RestoreEnd(ClearSavedConnection(s), i, "absent")
    ELSE Goto(s, i, "mm_accounts")

\* restoreMetaMaskConnection up to its first await (run by the 1 s timer)
RestoreMetaMaskStart(s, i) ==
    IF ~ethereum THEN RestoreEnd(ClearSavedConnection(s), i, "absent")
    ELSE Goto(s, i, "rs_accounts")

\* restoreMetaMaskConnection resumed by the reply r
RestoreMetaMaskStep(s, i, r) ==
    LET pc == s.tasks[i].pc
    IN  CASE pc = "rs_accounts" ->
                IF ~r.ok THEN RestoreEnd(s, i, "error")
                ELSE IF r.accs = <<>> THEN RestoreEnd(ClearSavedConnection(s), i, "noaccounts")
                ELSE IF s.connection # NoConn /\ ToLower(r.accs[1]) = ToLower(s.connection.address)
                THEN Goto([s EXCEPT !.tasks[i].acct = ToLower(r.accs[1])], i, "rs_signer")
                ELSE RestoreEnd(ClearSavedConnection(s), i, "mismatch")
          [] pc = "rs_signer" ->
                IF r.ok THEN Goto(s, i, "rs_balance")
                ELSE RestoreEnd(ClearSavedConnection(s), i, "derivefail")
          [] pc = "rs_balance" ->
                IF ~r.ok THEN RestoreEnd(ClearSavedConnection(s), i, "derivefail")
                ELSE LET c == RestoredConnection(s.connection, r.bal)
                         s1 == Emit(SaveConnection([s EXCEPT !.connection = c, !.tasks[i].conn = c]),
                                    "connected", c, "restore")
                     IN  IF EmitThrows("connected")
                         THEN RestoreEnd(ClearSavedConnection(s1), i, "derivefail")
                         ELSE RestoreEnd(SetupMetaMaskListeners(s1), i, "restored")

\* restoreHashPackConnection: isHashPackInstalled() is true in a browser
RestoreHashPack(s, i) ==
    RestoreEnd(EmitUnheard(s, "connected", s.connection, "restore"), i, "restored")

\* The constructor's loadSavedConnection() returns without throwing, whatever it read:
\* nothing, content JSON.parse rejected, or a parsed record.
Loaded(s, saved) ==
    LET why == IF saved = NoConn THEN "absent"
               ELSE IF saved = Garbage THEN "garbage" ELSE "parsed"
    IN  Resolve(Spawn(s, [Task("load", saved.type, "start", "startup", s) EXCEPT !.why = why]), 1)

\* loadSavedConnection that leaves content it cannot parse in the store
LoadSavedConnectionKeepingGarbage(saved) ==
    LET fresh == [connection |-> NoConn, stored |-> saved, emitted |-> <<>>, tasks |-> <<>>,
                  done |-> <<>>, mmListeners |-> 0, wcProvider |-> 0, wcObjs |-> <<>>,
                  hashPackConnector |-> FALSE, hederaWCProvider |-> FALSE]
        s0 == Loaded(fresh, saved)
        s1 == [s0 EXCEPT !.connection = saved]
    IN  IF saved = NoConn THEN s0
        ELSE IF saved = Garbage THEN s0
        ELSE IF saved.type = METAMASK
        THEN Spawn(s1, Task("restore", METAMASK, "rs_timer", "startup", s0))
        ELSE IF saved.type = HASHPACK
        THEN RestoreHashPack(Spawn(s1, Task("restore", HASHPACK, "start", "startup", s0)), 1)
        ELSE s1

\* loadSavedConnection, as the constructor runs it on the content `saved` of the store;
\* no subscriber can be registered yet.
LoadSavedConnection(saved) ==
    LET fresh == [connection |-> NoConn, stored |-> saved, emitted |-> <<>>, tasks |-> <<>>,
                  done |-> <<>>, mmListeners |-> 0, wcProvider |-> 0, wcObjs |-> <<>>,
                  hashPackConnector |-> FALSE, hederaWCProvider |-> FALSE]
        s0 == Loaded(fresh, saved)
        s1 == [s0 EXCEPT !.connection = saved]
    IN  IF saved = NoConn THEN s0
        ELSE IF saved = Garbage THEN ClearSavedConnection(s0)
        ELSE IF saved.type = METAMASK
        THEN Spawn(s1, Task("restore", METAMASK, "rs_timer", "startup", s0))
        ELSE IF saved.type = HASHPACK
        THEN RestoreHashPack(Spawn(s1, Task("restore", HASHPACK, "start", "startup", s0)), 1)
        ELSE s1

\* ------------------------------------------------------------------ signing
\* signMessage(message), were it to call whatever signer the session holds
SignMessageTrustingSigner(s) ==
    LET i == Len(s.tasks) + 1
        c == s.connection
        s0 == Spawn(s, Task("signMessage", c.type, "start", "api", s))
    IN  IF c = NoConn THEN Reject(s0, i, ErrNoWallet)
        ELSE IF c.type = HASHPACK
        THEN (IF s.hederaWCProvider THEN Goto(s0, i, "sg_hashpack")
              ELSE Reject(s0, i, ErrHashPackUnavailable))
        ELSE IF c.signer # "none" THEN Goto(s0, i, "sg_signer")
        ELSE Reject(s0, i, ErrNoSignerSign)

\* signMessage(message) up to its first await; a signer that came back from
\* JSON.parse is truthy and has no signMessage method: the call throws a TypeError
SignMessage(s) ==
    LET i == Len(s.tasks) + 1
        c == s.connection
        s0 == Spawn(s, Task("signMessage", c.type, "start", "api", s))
    IN  IF c = NoConn THEN Reject(s0, i, ErrNoWallet)
        ELSE IF c.type = HASHPACK
        THEN (IF s.hederaWCProvider THEN Goto(s0, i, "sg_hashpack")
              ELSE Reject(s0, i, ErrHashPackUnavailable))
        ELSE IF c.signer = "live" THEN Goto(s0, i, "sg_signer")
        ELSE IF c.signer = "dead" THEN Reject(s0, i, ErrTypeError)
        ELSE Reject(s0, i, ErrNoSignerSign)

\* signMessage resumed by the reply r
SignMessageStep(s, i, r) ==
    LET pc == s.tasks[i].pc
    IN  CASE pc = "sg_hashpack" ->
                IF r.ok THEN Resolve(s, i) ELSE Reject(s, i, ErrHashPackSign)
          [] pc = "sg_signer" ->
                IF r.ok THEN Resolve(s, i) ELSE Reject(s, i, r.err)

\* sendTransaction(transaction) up to its first await
SendTransaction(s) ==
    LET i == Len(s.tasks) + 1
        c == s.connection
        s0 == Spawn(s, Task("sendTransaction", c.type, "start", "api", s))
    IN  IF c = NoConn THEN Reject(s0, i, ErrNoWallet)
        ELSE IF c.type = HASHPACK
        THEN (IF s.hederaWCProvider THEN Goto(s0, i, "tx_hashpack")
              ELSE Reject(s0, i, ErrHashPackUnavailable))
        ELSE IF c.signer = "live" THEN Goto(s0, i, "tx_send")
        ELSE IF c.signer = "dead" THEN Reject(s0, i, ErrTypeError)
        ELSE Reject(s0, i, ErrNoSignerTx)

\* sendTransaction resumed by the reply r
SendTransactionStep(s, i, r) ==
    LET pc == s.tasks[i].pc
    IN  CASE pc = "tx_hashpack" ->
                IF r.ok THEN Goto(s, i, "tx_execute") ELSE Reject(s, i, ErrHashPackTx)
          [] pc = "tx_execute" ->
                IF r.ok THEN Resolve(s, i) ELSE Reject(s, i, ErrHashPackTx)
          [] pc = "tx_send" ->
                IF r.ok THEN Goto(s, i, "tx_wait") ELSE Reject(s, i, r.err)
          [] pc = "tx_wait" ->
                IF ~r.ok THEN Reject(s, i, r.err)
                ELSE IF r = NullReceipt THEN Reject(s, i, ErrNullReceipt)
                ELSE Resolve(s, i)

\* ------------------------------------------------------------ health checks
\* `return b` of checkConnectionHealth / canRestoreConnection
Return(s, i, b) ==
    Resolve([s EXCEPT !.tasks[i].ret = IF b THEN "true" ELSE "false"], i)

\* checkConnectionHealth() up to its first await; calling a method of a provider
\* that came back from JSON.parse throws a TypeError, which the catch turns to false
CheckConnectionHealth(s) ==
    LET i == Len(s.tasks) + 1
        c == s.connection
        s0 == Spawn(s, Task("health", c.type, "start", "api", s))
    IN  IF c = NoConn THEN Return(s0, i, FALSE)
        ELSE IF c.type = METAMASK /\ c.provider # "none"
        THEN (IF c.provider = "live" THEN Goto(s0, i, "ch_balance") ELSE Return(s0, i, FALSE))
        ELSE IF c.type = WALLETCONNECT /\ s.wcProvider # 0
        THEN Goto(s0, i, "ch_accounts")
        ELSE Return(s0, i, TRUE)

\* checkConnectionHealth resumed by the reply r, were a failed read to remove the
\* stored record
CheckConnectionHealthStepClearing(s, i, r) ==
    LET pc == s.tasks[i].pc
        s1 == [s EXCEPT !.tasks[i].read = IF r.ok THEN "ok" ELSE "failed"]
    IN  CASE pc = "ch_balance" ->
                Return(IF r.ok THEN s1 ELSE ClearSavedConnection(s1), i, r.ok)
          [] pc = "ch_accounts" ->
                Return(IF r.ok THEN s1 ELSE ClearSavedConnection(s1), i, r.ok /\ r.accs # <<>>)

\* checkConnectionHealth resumed by the reply r
CheckConnectionHealthStep(s, i, r) ==
    LET pc == s.tasks[i].pc
        s1 == [s EXCEPT !.tasks[i].read = IF r.ok THEN "ok" ELSE "failed"]
    IN  CASE pc = "ch_balance" -> Return(s1, i, r.ok)
          [] pc = "ch_accounts" -> Return(s1, i, r.ok /\ r.accs # <<>>)

\* The verdict of canRestoreConnection on the accounts the backend reported, for the
\* session c the manager holds by then; c.address.toLowerCase() throws without one.
CanRestoreVerdictAnyAccount(c, accs) ==
    accs # <<>>

CanRestoreVerdict(c, accs) ==
    /\ accs # <<>>
    /\ c.type \notin {"null", "undefined"}
    /\ ToLower(accs[1]) = ToLower(c.address)

\* canRestoreConnection() up to its first await
CanRestoreConnection(s) ==
    LET i == Len(s.tasks) + 1
        c == s.connection
        s0 == Spawn(s, Task("canRestore", c.type, "start", "api", s))
    IN  IF c = NoConn THEN Return(s0, i, FALSE)
        ELSE IF c.type # METAMASK THEN Return(s0, i, FALSE)
        ELSE IF ~ethereum THEN Return(s0, i, FALSE)
        ELSE Goto(s0, i, "cr_accounts")

\* canRestoreConnection resumed by the reply r
CanRestoreConnectionStep(s, i, r) ==
    LET s1 == [s EXCEPT !.tasks[i].read = IF r.ok THEN "ok" ELSE "failed",
                        !.tasks[i].acct = IF r.ok /\ r.accs # <<>> THEN r.accs[1] ELSE ""]
    IN  Return(s1, i, r.ok /\ CanRestoreVerdict(s.connection, r.accs))

\* -------------------------------------------------------------- getBalance
\* The getBalance() call ends returning the string bal.
Returned(s, i, bal) ==
    Resolve([s EXCEPT !.tasks[i].bal = bal], i)

\* getBalance() up to its first await: this.hederaClient is set by the constructor;
\* a provider that came back from JSON.parse has no getBalance method, and the
\* TypeError of calling it is caught like a failure of the backend.
GetBalance(s) ==
    LET i == Len(s.tasks) + 1
        c == s.connection
        s0 == Spawn(s, Task("getBalance", c.type, "start", "api", s))
    IN  IF c = NoConn THEN Reject(s0, i, ErrNoWallet)
        ELSE IF c.type = HASHPACK THEN Goto(s0, i, "gb_query")
        ELSE IF c.provider = "live" THEN Goto(s0, i, "gb_balance")
        ELSE IF c.provider = "dead"
        THEN Returned([s0 EXCEPT !.tasks[i].raised = ErrTypeError], i, "0")
        ELSE Returned(s0, i, IF c.balance = "" THEN "0" ELSE c.balance)

\* getBalance resumed by the reply r, were its catch to rethrow
GetBalanceStepRethrowing(s, i, r) ==
    IF r.ok THEN Returned(s, i, r.bal) ELSE Reject(s, i, r.err)

\* getBalance resumed by the reply r
GetBalanceStep(s, i, r) ==
    IF r.ok THEN Returned(s, i, r.bal) ELSE Returned(s, i, "0")

\* ------------------------------------------- the application's session check
\* checkExistingSession: `walletConnector.resetConnectionState()` on an unhealthy
\* session; an exception of the reset reaches the catch, which resets once more
CheckUnhealthy(s, i) ==
    LET s1 == ResetConnectionState([s EXCEPT !.tasks[i].why = "unhealthy"])
    IN  IF EmitThrows("disconnected")
        THEN Reject(ResetConnectionState(s1), i, ErrSubscriber)
        ELSE Resolve(s1, i)

CheckEnd(s, i, why) ==
    Resolve([s EXCEPT !.tasks[i].why = why], i)

\* checkExistingSession once canRestoreConnection() answered true: the call of
\* checkConnectionHealth() up to its first await
CheckHealth(s, i) ==
    LET c == s.connection
    IN  IF c = NoConn THEN CheckUnhealthy(s, i)
        ELSE IF c.type = METAMASK /\ c.provider # "none"
        THEN (IF c.provider = "live" THEN Goto(s, i, "ck_balance") ELSE CheckUnhealthy(s, i))
        ELSE IF c.type = WALLETCONNECT /\ s.wcProvider # 0
        THEN Goto(s, i, "ck_health")
        ELSE CheckEnd(s, i, "healthy")

\* checkExistingSession() of the application, run when it mounts, up to its first await
CheckExistingSession(s) ==
    LET i == Len(s.tasks) + 1
        c == s.connection
        s0 == Spawn(s, [Task("check", c.type, "start", "mount", s) EXCEPT !.acct = c.accountId])
    IN  IF c = NoConn THEN CheckEnd(s0, i, "nosession")
        ELSE IF c.type # METAMASK \/ ~ethereum THEN CheckEnd(s0, i, "cannotRestore")
        ELSE Goto(s0, i, "ck_accounts")

\* checkExistingSession resumed by the reply r
CheckExistingSessionStep(s, i, r) ==
    LET pc == s.tasks[i].pc
    IN  CASE pc = "ck_accounts" ->
                IF r.ok /\ CanRestoreVerdict(s.connection, r.accs)
                THEN CheckHealth(s, i)
                ELSE CheckEnd(s, i, "cannotRestore")
          [] pc = "ck_balance" ->
                IF r.ok THEN CheckEnd(s, i, "healthy") ELSE CheckUnhealthy(s, i)
          [] pc = "ck_health" ->
                IF r.ok /\ r.accs # <<>> THEN CheckEnd(s, i, "healthy")
                ELSE CheckUnhealthy(s, i)

\* ------------------------------------------------------ the auth container
\* useState of AuthProvider before its mount effect ran: isConnected false and
\* connection null (accountId ""), no listener registered yet.
UiUnmounted ==
    [mounted |-> FALSE, isConnected |-> FALSE, accountId |-> ""]

\* the `connected` listener: setConnection(connection); setIsConnected(true)
UiOnConnected(u, payload) ==
    [u EXCEPT !.isConnected = TRUE, !.accountId = payload.accountId]

\* the `disconnected` listener: setConnection(null); setIsConnected(false)
UiOnDisconnected(u) ==
    [u EXCEPT !.isConnected = FALSE, !.accountId = ""]

\* the `accountsChanged` listener; cur is walletConnector.getConnection() when it runs
UiOnAccountsChanged(u, accs, cur) ==
    IF accs = <<>> THEN [u EXCEPT !.isConnected = FALSE, !.accountId = ""]
    ELSE IF cur # NoConn THEN [u EXCEPT !.accountId = cur.accountId]
    ELSE u

\* The listener of the container that event e reaches, if e called the subscriber
\* the container registered.
UiOn(u, e) ==
    IF ~u.mounted \/ e.called = <<>> THEN u
    ELSE CASE e.name = "connected" -> UiOnConnected(u, e.payload)
           [] e.name = "disconnected" -> UiOnDisconnected(u)
           [] e.name = "accountsChanged" -> UiOnAccountsChanged(u, e.accs, e.seen.connection)
           [] OTHER -> u

RECURSIVE UiOnAll(_, _)
UiOnAll(u, es) ==
    IF es = <<>> THEN u ELSE UiOnAll(UiOn(u, Head(es)), Tail(es))

\* checkExistingSession on a healthy verdict: setConnection(currentConnection);
\* setIsConnected(true), with the connection it read before its awaits
UiOnHealthy(u, ds) ==
    IF \E k \in DOMAIN ds : ds[k].op = "check" /\ ds[k].why = "healthy"
    THEN LET k == CHOOSE k \in DOMAIN ds : ds[k].op = "check" /\ ds[k].why = "healthy"
         IN  [u EXCEPT !.isConnected = TRUE, !.accountId = ds[k].acct]
    ELSE u

\* updateBalance once getBalance() resolved: setConnection({ ...connection, balance })
\* with the connection of the render that called it
UiOnBalance(u, ds) ==
    IF \E k \in DOMAIN ds : ds[k].op = "getBalance" /\ ds[k].pc = "resolved"
    THEN LET k == CHOOSE k \in DOMAIN ds : ds[k].op = "getBalance" /\ ds[k].pc = "resolved"
         IN  [u EXCEPT !.accountId = ds[k].acct]
    ELSE u

\* The container's state after a step of the manager that led to s: its listeners
\* ran on the events of the step, and a session check or a balance update the step
\* ended has set state.
UiAfter(u, s) ==
    UiOnBalance(UiOnHealthy(UiOnAll(u, s.emitted), s.done), s.done)

\* ---------------------------------------------------- the dashboard refresh
\* The auto-refresh effect of useDashboardData before the hook is mounted, on a
\* visible page: no interval runs (timers counts the intervals setInterval started
\* and clearInterval has not ended), the effect has registered no visibilitychange
\* listener (listening), and held tells whether `intervalId` of the effect's
\* closure names a running interval.
DashUnmounted ==
    [mounted |-> FALSE, hidden |-> FALSE, timers |-> 0, held |-> FALSE, listening |-> FALSE]

\* intervalId = setInterval(fetchDashboardData, 60000): an id held before is lost
DashSetInterval(d) ==
    [d EXCEPT !.timers = @ + 1, !.held = TRUE]

\* clearInterval(intervalId): nothing when intervalId is undefined or already cleared
DashClearInterval(d) ==
    IF d.held THEN [d EXCEPT !.timers = @ - 1, !.held = FALSE] ELSE d

\* the effect's cleanup, were it only to remove the visibilitychange listener
DashCleanupKeepingTimer(d) ==
    IF d.listening THEN [d EXCEPT !.listening = FALSE] ELSE d

\* The cleanup the effect returned, if its last run got past `if (!isConnected)
\* return`: clearInterval(intervalId); removeEventListener.
DashCleanup(d) ==
    IF d.listening THEN [DashClearInterval(d) EXCEPT !.listening = FALSE] ELSE d

\* A run of the effect body with a fresh `let intervalId`.
DashEffect(d, isConnected) ==
    IF ~isConnected THEN d
    ELSE LET d0 == [d EXCEPT !.held = FALSE]
             d1 == IF ~d0.hidden THEN DashSetInterval(d0) ELSE d0
         IN  [d1 EXCEPT !.listening = TRUE]

\* handleVisibilityChange with document.hidden as d tells it; the isConnected of its
\* closure is true, or the effect had returned before registering it
DashHandleVisibilityChange(d) ==
    IF ~d.listening THEN d
    ELSE IF ~d.hidden THEN DashSetInterval(d)
    ELSE DashClearInterval(d)

\* React re-runs the effect, cleanup first, when isConnected or fetchDashboardData
\* changed; fetchDashboardData is rebuilt when isConnected or user?.accountId
\* changed, and the user's account follows the connection's.
DashAfter(d, u, v) ==
    IF d.mounted /\ (v.isConnected # u.isConnected \/ v.accountId # u.accountId)
    THEN DashEffect(DashCleanup(d), v.isConnected)
    ELSE d

\* ----------------------------------------------------- backend notifications
\* parseInt(chainIdStr, 16).toString() for the chains of the model
HexToDecimalString(c) ==
    CASE c = "0x128" -> "296"
      [] c = "0x127" -> "295"
      [] c = "0x1" -> "1"
      [] OTHER -> "NaN"

ExpectedChainId == "296"

Chains == {"0x128", "0x1"}

\* the accountsChanged listener of setupMetaMaskListeners / setupWalletConnectListeners
AccountsChangedHandler(s, accs) ==
    LET s1 == EmitAccounts(s, accs)
    IN  IF EmitThrows("accountsChanged") THEN s1
        ELSE IF accs = <<>> THEN Disconnect(s1, "accountsChanged")
        ELSE UpdateConnection(s1, accs[1])

\* the chainChanged listener of setupMetaMaskListeners
MetaMaskChainChangedHandler(s, c) ==
    LET s1 == EmitChain(s, c, "metamask")
    IN  IF EmitThrows("chainChanged") THEN s1
        ELSE IF HexToDecimalString(c) # ExpectedChainId
        THEN EmitNetworkMismatch(s1, c, ExpectedChainId, "metamask")
        ELSE s1

\* the chainChanged listener of setupWalletConnectListeners
WalletConnectChainChangedHandler(s, c) ==
    EmitChain(s, c, "walletconnect")

\* the disconnect listener of setupWalletConnectListeners
WalletConnectDisconnectHandler(s) ==
    Disconnect(s, "wcDisconnect")

\* A backend event is delivered to every listener registered for it, in turn.
RECURSIVE DeliverAccounts(_, _, _)
DeliverAccounts(s, accs, n) ==
    IF n = 0 THEN s ELSE DeliverAccounts(AccountsChangedHandler(s, accs), accs, n - 1)

RECURSIVE DeliverMetaMaskChain(_, _, _)
DeliverMetaMaskChain(s, c, n) ==
    IF n = 0 THEN s ELSE DeliverMetaMaskChain(MetaMaskChainChangedHandler(s, c), c, n - 1)

RECURSIVE DeliverWalletConnectChain(_, _, _)
DeliverWalletConnectChain(s, c, n) ==
    IF n = 0 THEN s ELSE DeliverWalletConnectChain(WalletConnectChainChangedHandler(s, c), c, n - 1)

RECURSIVE DeliverWalletConnectDisconnect(_, _)
DeliverWalletConnectDisconnect(s, n) ==
    IF n = 0 THEN s ELSE DeliverWalletConnectDisconnect(WalletConnectDisconnectHandler(s), n - 1)

\* ------------------------------------------------------------ specification
\* What the store can hold when the page loads: nothing, a record an earlier page
\* wrote, or content that is no JSON.
StartupStore ==
    {NoConn, Garbage}
        \cup {Serialize(HashPackConnection(a, b)) : a \in HederaAccounts, b \in Balances}
        \cup {Serialize(MetaMaskConnection(a, b)) : a \in EvmAccounts, b \in Balances}
        \cup {Serialize(WalletConnectConnection("0xdef2", b)) : b \in Balances}

\* The subscribers the application registers right after construction: the UI's,
\* with or without a `connected` subscriber that throws.
Subscribers ==
    {[e \in EventNames |-> <<"ok">>],
     [e \in EventNames |-> IF e = "connected" THEN <<"ok", "throw">> ELSE <<"ok">>]}

Init ==
    /\ \E saved \in StartupStore :
          LET s == LoadSavedConnection(saved)
          IN  /\ connection = s.connection
              /\ stored = s.stored
              /\ emitted = s.emitted
              /\ tasks = s.tasks
              /\ done = s.done
              /\ mmListeners = s.mmListeners
              /\ wcProvider = s.wcProvider
              /\ wcObjs = s.wcObjs
              /\ hashPackConnector = s.hashPackConnector
              /\ hederaWCProvider = s.hederaWCProvider
    /\ listeners \in Subscribers
    /\ ethereum \in BOOLEAN
    /\ env \in BOOLEAN
    /\ ops = 0
    /\ ui = UiUnmounted
    /\ dash = DashUnmounted

Config == <<listeners, ethereum, env>>

\* An external stimulus, counted.
Called ==
    /\ ops < MaxOps
    /\ Len(tasks) < MaxPending
    /\ ops' = ops + 1
    /\ UNCHANGED Config

Stimulus ==
    Called /\ UNCHANGED <<ui, dash>>

Internal ==
    UNCHANGED <<ops, Config, ui, dash>>

Pending(i) ==
    i \in DOMAIN tasks /\ Replies(tasks[i].pc) # {}

\* The operation a reply resumes.
Dispatch(s, i, r) ==
    LET op == s.tasks[i].op
        ty == s.tasks[i].type
    IN  CASE op = "connect" /\ ty = HASHPACK -> HashPackStep(s, i, r)
          [] op = "connect" /\ ty = METAMASK -> MetaMaskStep(s, i, r)
          [] op = "connect" /\ ty = WALLETCONNECT -> WalletConnectStep(s, i, r)
          [] op = "disconnect" -> DisconnectStep(s, i, r)
          [] op = "update" -> UpdateStep(s, i, r)
          [] op = "restore" -> RestoreMetaMaskStep(s, i, r)
          [] op = "health" -> CheckConnectionHealthStep(s, i, r)
          [] op = "canRestore" -> CanRestoreConnectionStep(s, i, r)
          [] op = "signMessage" -> SignMessageStep(s, i, r)
          [] op = "check" -> CheckExistingSessionStep(s, i, r)
          [] op = "getBalance" -> GetBalanceStep(s, i, r)
          [] op = "sendTransaction" -> SendTransactionStep(s, i, r)

\* The resumption by reply r; the outcome of an operation this reply ends tells the
\* error the backend raised, if any.
Resume(s, i, r) ==
    LET s1 == Dispatch([s EXCEPT !.tasks[i].raised = r.err], i, r)
    IN  [s1 EXCEPT !.tasks = [k \in DOMAIN s1.tasks |-> [s1.tasks[k] EXCEPT !.raised = ""]]]

CallConnect ==
    \E t \in WalletType : Becomes(ConnectStart(Cur, t)) /\ Stimulus

CallDisconnect ==
    Becomes(Disconnect(Cur, "api")) /\ Stimulus

CallResetConnectionState ==
    Becomes(ResetConnectionState(Cur)) /\ Stimulus

CallCheckConnectionHealth ==
    Becomes(CheckConnectionHealth(Cur)) /\ Stimulus

CallCanRestoreConnection ==
    Becomes(CanRestoreConnection(Cur)) /\ Stimulus

CallSignMessage ==
    Becomes(SignMessage(Cur)) /\ Stimulus

CallSendTransaction ==
    Becomes(SendTransaction(Cur)) /\ Stimulus

Mount ==
    Becomes(CheckExistingSession(Cur)) /\ Stimulus

BackendReply ==
    \E i \in DOMAIN tasks :
        /\ Pending(i)
        /\ \E r \in Replies(tasks[i].pc) : Becomes(Resume(Cur, i, r))
        /\ Internal

RestoreTimer ==
    \E i \in DOMAIN tasks :
        /\ tasks[i].pc = "rs_timer"
        /\ Becomes(RestoreMetaMaskStart(Cur, i))
        /\ Internal

MetaMaskAccountsChanged ==
    /\ ethereum /\ mmListeners > 0
    /\ \E accs \in {<<>>} \cup {<<a>> : a \in EvmAccounts} :
          Becomes(DeliverAccounts(Cur, accs, mmListeners))
    /\ Stimulus

MetaMaskChainChanged ==
    /\ ethereum /\ mmListeners > 0
    /\ \E c \in Chains : Becomes(DeliverMetaMaskChain(Cur, c, mmListeners))
    /\ Stimulus

WalletConnectAccountsChanged ==
    /\ \E p \in DOMAIN wcObjs :
          /\ wcObjs[p] > 0
          /\ \E accs \in {<<>>} \cup {<<a>> : a \in EvmAccounts} :
                Becomes(DeliverAccounts(Cur, accs, wcObjs[p]))
    /\ Stimulus

WalletConnectChainChanged ==
    /\ \E p \in DOMAIN wcObjs :
          /\ wcObjs[p] > 0
          /\ \E c \in Chains : Becomes(DeliverWalletConnectChain(Cur, c, wcObjs[p]))
    /\ Stimulus

WalletConnectDisconnected ==
    /\ \E p \in DOMAIN wcObjs :
          /\ wcObjs[p] > 0
          /\ Becomes(DeliverWalletConnectDisconnect(Cur, wcObjs[p]))
    /\ Stimulus

Next ==
    \/ CallConnect
    \/ CallDisconnect
    \/ CallResetConnectionState
    \/ CallCheckConnectionHealth
    \/ CallCanRestoreConnection
    \/ CallSignMessage
    \/ CallSendTransaction
    \/ Mount
    \/ BackendReply
    \/ RestoreTimer
    \/ MetaMaskAccountsChanged
    \/ MetaMaskChainChanged
    \/ WalletConnectAccountsChanged
    \/ WalletConnectChainChanged
    \/ WalletConnectDisconnected

Spec == Init /\ [][Next]_vars

\* ------------------------------------------------ specification of the event bus
\* The manager from its construction, before anything subscribed: the application
\* subscribes and unsubscribes callbacks, and resetConnectionState() publishes.
Callbacks == {"ok", "ok2", "throw", "remover", "adder"}

BusEvents == {"connected", "disconnected"}

InitBus ==
    /\ \E saved \in StartupStore :
          LET s == LoadSavedConnection(saved)
          IN  /\ connection = s.connection
              /\ stored = s.stored
              /\ emitted = s.emitted
              /\ tasks = s.tasks
              /\ done = s.done
              /\ mmListeners = s.mmListeners
              /\ wcProvider = s.wcProvider
              /\ wcObjs = s.wcObjs
              /\ hashPackConnector = s.hashPackConnector
              /\ hederaWCProvider = s.hederaWCProvider
    /\ listeners = [e \in EventNames |-> <<>>]
    /\ ethereum \in BOOLEAN
    /\ env \in BOOLEAN
    /\ ops = 0
    /\ ui = UiUnmounted
    /\ dash = DashUnmounted

CallOn ==
    /\ \E e \in BusEvents, cb \in Callbacks :
          /\ Len(listeners[e]) < MaxListeners
          /\ listeners' = On(listeners, e, cb)
    /\ Becomes(Cur)
    /\ UNCHANGED <<ethereum, env, ops, ui, dash>>

CallOff ==
    /\ \E e \in BusEvents, cb \in Callbacks : listeners' = Off(listeners, e, cb)
    /\ Becomes(Cur)
    /\ UNCHANGED <<ethereum, env, ops, ui, dash>>

\* resetConnectionState() publishes `disconnected` to the callbacks registered
BusPublish ==
    /\ Becomes(ResetConnectionState(Cur))
    /\ listeners' = [listeners EXCEPT !["disconnected"] = Publish(listeners, "disconnected").listeners]
    /\ ops < MaxOps
    /\ ops' = ops + 1
    /\ UNCHANGED <<ethereum, env, ui, dash>>

NextBus ==
    \/ CallOn
    \/ CallOff
    \/ BusPublish

SpecBus == InitBus /\ [][NextBus]_vars

\* --------------------------------------- specification of the auth container
\* The manager together with AuthProvider: the provider mounts (registers its
\* listeners and runs checkExistingSession), the user connects and disconnects
\* through it, and MetaMask reports account changes.
Rendered(s) ==
    /\ Becomes(s)
    /\ ui' = UiAfter(ui, s)
    /\ dash' = DashAfter(dash, ui, ui')

UiMount ==
    /\ ~ui.mounted
    /\ LET s == CheckExistingSession(Cur)
       IN  /\ Becomes(s)
           /\ ui' = UiAfter([ui EXCEPT !.mounted = TRUE], s)
           /\ dash' = DashAfter(DashEffect([dash EXCEPT !.mounted = TRUE], ui.isConnected), ui, ui')
    /\ Called

UiConnectWallet ==
    /\ ui.mounted
    /\ \E t \in WalletType : Rendered(ConnectStart(Cur, t))
    /\ Called

UiDisconnectWallet ==
    /\ ui.mounted
    /\ Rendered(Disconnect(Cur, "api"))
    /\ Called

\* updateBalance of the container: `if (connection)` on its own state, then
\* walletConnector.getBalance()
UiUpdateBalance ==
    /\ ui.mounted /\ ui.accountId # ""
    /\ LET s == GetBalance(Cur)
           i == Len(tasks) + 1
       IN  Rendered(IF Len(s.tasks) > Len(tasks)
                    THEN [s EXCEPT !.tasks[i].acct = ui.accountId]
                    ELSE [s EXCEPT !.done[Len(s.done)].acct = ui.accountId])
    /\ Called

UiBackendReply ==
    \E i \in DOMAIN tasks :
        /\ Pending(i)
        /\ \E r \in Replies(tasks[i].pc) : Rendered(Resume(Cur, i, r))
        /\ UNCHANGED <<ops, Config>>

UiRestoreTimer ==
    \E i \in DOMAIN tasks :
        /\ tasks[i].pc = "rs_timer"
        /\ Rendered(RestoreMetaMaskStart(Cur, i))
        /\ UNCHANGED <<ops, Config>>

UiAccountsChanged ==
    /\ ethereum /\ mmListeners > 0
    /\ \E accs \in {<<>>} \cup {<<a>> : a \in EvmAccounts} :
          Rendered(DeliverAccounts(Cur, accs, mmListeners))
    /\ Called

\* The page becomes hidden or visible: document.hidden changes and the browser
\* dispatches visibilitychange.
DashVisibilityChange ==
    /\ dash' = DashHandleVisibilityChange([dash EXCEPT !.hidden = ~@])
    /\ Becomes(Cur)
    /\ Called
    /\ UNCHANGED ui

\* The component using useDashboardData unmounts: React runs the cleanup.
DashUnmount ==
    /\ dash.mounted
    /\ dash' = [DashCleanup(dash) EXCEPT !.mounted = FALSE]
    /\ Becomes(Cur)
    /\ Called
    /\ UNCHANGED ui

NextUi ==
    \/ UiMount
    \/ DashVisibilityChange
    \/ DashUnmount
    \/ UiConnectWallet
    \/ UiDisconnectWallet
    \/ UiUpdateBalance
    \/ UiBackendReply
    \/ UiRestoreTimer
    \/ UiAccountsChanged

SpecUi == Init /\ [][NextUi]_vars

\* ------------------------------------------------------------------ claims
Outcomes == {done[k] : k \in DOMAIN done}

Emitted == {emitted[k] : k \in DOMAIN emitted}

Count(name) == Cardinality({k \in DOMAIN emitted : emitted[k].name = name})

\* C1: a connect() started while an earlier connect() is still waiting on its backend
\* is rejected with AlreadyConnecting and never starts a handshake of its own.
C1_OverlappingConnectRejected ==
    /\ \A k \in DOMAIN tasks : tasks[k].op = "connect" => ~tasks[k].overlap
    /\ \A d \in Outcomes :
          d.op = "connect" /\ d.overlap => d.pc = "rejected" /\ d.err = "AlreadyConnecting"

\* C2: a connect() called while a session (one with a live signer)
\* is active is rejected with AlreadyConnected and never waits on a backend.
C2_ConnectWhileConnectedRejected ==
    /\ \A k \in DOMAIN tasks :
          tasks[k].op = "connect" => ~(tasks[k].hadSession /\ tasks[k].hadSigner = "live")
    /\ \A d \in Outcomes :
          d.op = "connect" /\ d.hadSession /\ d.hadSigner = "live"
              => d.pc = "rejected" /\ d.err = "AlreadyConnected" /\ emitted = <<>>

\* C3: a startup restore whose silent-restore check is negative (backend absent, no
\* authorized account, another first account) leaves the manager without a session
\* and emits no `connected`.
C3_NegativeRestoreStaysDisconnected ==
    \A d \in Outcomes :
        d.op = "restore" /\ d.why \in {"absent", "noaccounts", "mismatch"}
            => connection = NoConn /\ Count("connected") = 0

\* C4: a connect(t) that resolves returns a fully populated session of type t with a
\* non-empty accountIdentifier; it is then the current session, a descriptor for it is
\* persisted, and the call emitted `connected` exactly once, at that step.
C4_ResolvedConnectIsComplete ==
    /\ \A d \in Outcomes :
          d.op = "connect" /\ d.pc = "resolved" =>
              /\ d.conn.type = d.type
              /\ d.conn.accountId # "" /\ d.conn.address = d.conn.accountId
              /\ d.conn.balance # "" /\ d.conn.network # "" /\ d.conn.chainId # 0
              /\ connection = d.conn
              /\ stored.type = d.conn.type /\ stored.accountId = d.conn.accountId
              /\ Cardinality({k \in DOMAIN emitted :
                    emitted[k].name = "connected" /\ emitted[k].by = "connect"}) = 1
              /\ \A e \in Emitted : e.name = "connected" => e.payload = d.conn
    /\ \A e \in Emitted :
          e.name = "connected" /\ e.by = "connect" =>
              \E d \in Outcomes : d.op = "connect" /\ d.conn = e.payload

C4_Witness ==
    \E d \in Outcomes :
        /\ d.op = "connect" /\ d.pc = "resolved" /\ d.type = WALLETCONNECT
        /\ connection = d.conn

\* C5: a connect() that rejects (called with no session and no other connect waiting)
\* leaves no session and no persisted descriptor.
C5_RejectedConnectLeavesDisconnected ==
    \A d \in Outcomes :
        d.op = "connect" /\ d.pc = "rejected" /\ ~d.hadSession /\ ~d.overlap
            => connection = NoConn /\ stored = NoConn

\* C6: a startup restore that ends because the backend is absent, reports no account,
\* fails to answer, or cannot re-derive the provider/signer keeps the persisted
\* descriptor.
C6_DescriptorKeptUnlessOwnershipChanged ==
    \A d \in Outcomes :
        d.op = "restore" /\ d.why \in {"absent", "noaccounts", "error", "derivefail"}
            => stored # NoConn

\* C7: every `connected` the startup restore emits carries a session whose signing
\* handle was derived from the live backend, so that signMessage reaches the backend.
C7_RestoredSessionHasFreshHandle ==
    \A e \in Emitted :
        e.name = "connected" /\ e.by = "restore" => e.handle = "live"

\* C8: a disconnect() called with an active session (one with a live signer) ends
\* resolved, with no session, no persisted descriptor and exactly one
\* `disconnected` emitted.
C8_DisconnectAlwaysClears ==
    \A d \in Outcomes :
        d.op = "disconnect" /\ d.src = "api" /\ d.hadSession /\ d.hadSigner = "live" =>
            /\ d.pc = "resolved"
            /\ connection = NoConn /\ stored = NoConn
            /\ Count("disconnected") = 1

C10_EmptyAccountsDisconnects ==
    \A d \in Outcomes :
        d.op = "disconnect" /\ d.src = "accountsChanged" /\ d.hadSession
            /\ d.hadSigner = "live" =>
            /\ d.pc = "resolved"
            /\ connection = NoConn /\ stored = NoConn
            /\ Count("disconnected") = 1 /\ Count("accountChanged") = 0

\* C11: when the backend of an active injected-provider or relay session (one with a
\* live signer) reports a new first account A, and no backend call of the update
\* fails and the session is not replaced meanwhile, the update ends with a session
\* and a persisted descriptor for A and exactly one `accountChanged` carrying it.
C11_AccountChangeUpdatesSession ==
    \A d \in Outcomes :
        (/\ d.op = "update" /\ d.type \in {METAMASK, WALLETCONNECT}
         /\ d.hadSigner = "live" /\ d.read # "failed" /\ connection.type = d.type) =>
            /\ connection.accountId = d.acct /\ connection.address = d.acct
            /\ connection.signer = "live"
            /\ stored.type = d.type /\ stored.accountId = d.acct
            /\ Count("accountChanged") = 1
            /\ \A e \in Emitted : e.name = "accountChanged" => e.payload = connection

\* C12: with an active injected-provider session (expected chain 296), the step in
\* which the backend reports chainChanged("0x1") emits exactly one `chainChanged`
\* and then exactly one `networkMismatch` with current "0x1" and expected "296", and
\* leaves the session and the persisted descriptor as they were.
C12_ChainMismatchReportedOnce ==
    [][(/\ connection.type = METAMASK /\ connection.signer = "live"
        /\ \E k \in DOMAIN emitted' :
              /\ emitted'[k].name = "chainChanged"
              /\ emitted'[k].by = "metamask"
              /\ emitted'[k].chain = "0x1") =>
            /\ Len(emitted') = 2
            /\ emitted'[1].name = "chainChanged" /\ emitted'[1].chain = "0x1"
            /\ emitted'[2].name = "networkMismatch"
            /\ emitted'[2].chain = "0x1" /\ emitted'[2].expected = "296"
            /\ connection' = connection /\ connection' # NoConn
            /\ stored' = stored]_vars

\* C13: in the step in which a backend (injected provider or relay) reports
\* chainChanged(c), a `networkMismatch` for c is emitted if and only if c read as a
\* hexadecimal number differs from the expected chain id.
C13_MismatchIffChainDiffers ==
    \A e \in Emitted :
        e.name = "chainChanged" =>
            ((HexToDecimalString(e.chain) # ExpectedChainId) <=>
                \E m \in Emitted : m.name = "networkMismatch" /\ m.chain = e.chain)

\* C14: in whatever state resetConnectionState() is called, right after it there is
\* no session (getConnection() null, isConnected() false) and no persisted
\* descriptor, and the call started no backend request: every operation waiting on
\* a backend after it was waiting before it, so it added no teardown.
C14_ResetClearsWithoutTeardown ==
    [][(\E k \in DOMAIN done' : done'[k].op = "reset") =>
            /\ connection' = NoConn
            /\ stored' = NoConn
            /\ \A j \in DOMAIN tasks' : \E i \in DOMAIN tasks : tasks'[j] = tasks[i]]_vars

\* a reset called with a session while another operation waits on its backend
C14_Witness ==
    \E d \in Outcomes :
        d.op = "reset" /\ d.hadSession /\ tasks # <<>> /\ connection = NoConn

\* C15: whenever no operation waits on a backend reply or on the restore timer, a
\* persisted descriptor exists exactly if there is a session, and the two name
\* the same backend type and the same account.
C15_StoreMatchesSession ==
    tasks = <<>> =>
        /\ (stored # NoConn) <=> (connection # NoConn)
        /\ (stored # NoConn /\ connection # NoConn) =>
              /\ stored.type = connection.type
              /\ stored.accountId = connection.accountId

\* C16: every step of checkConnectionHealth() and of canRestoreConnection(), the
\* call and the resumption by any backend reply, leaves the session and the
\* persisted descriptor as they were and emits no event, and the operation ends
\* resolved with true or false, never rejected.
C16_ChecksAreReadOnly ==
    [][(\/ \E k \in DOMAIN done' : done'[k].op \in {"health", "canRestore"}
        \/ /\ Len(tasks') > Len(tasks)
           /\ tasks'[Len(tasks')].op \in {"health", "canRestore"}) =>
            /\ connection' = connection
            /\ stored' = stored
            /\ emitted' = <<>>
            /\ \A k \in DOMAIN done' :
                  /\ done'[k].op \in {"health", "canRestore"}
                  /\ done'[k].pc = "resolved"
                  /\ done'[k].ret \in {"true", "false"}]_vars

\* a health check of a session with a descriptor ended after its read failed
C16_Witness ==
    \E d \in Outcomes :
        /\ d.op = "health" /\ d.read = "failed" /\ d.ret = "false"
        /\ connection # NoConn /\ stored # NoConn

\* C17: canRestoreConnection() always resolves; it answers true only when there
\* is a session, the backend answered eth_accounts with a non-empty list and the
\* first account equals the session's account up to letter case; with no session,
\* no backend, a failed query, an empty list or a different first account it
\* answers false.
C17_CanRestoreOnlyOnMatch ==
    \A d \in Outcomes :
        d.op = "canRestore" =>
            /\ d.pc = "resolved"
            /\ d.ret = "true" =>
                  /\ connection # NoConn
                  /\ d.read = "ok" /\ d.acct # ""
                  /\ ToLower(d.acct) = ToLower(connection.accountId)
            /\ (\/ ~d.hadSession
                \/ ~ethereum
                \/ d.read = "failed"
                \/ d.read = "ok" /\ d.acct = ""
                \/ d.acct # "" /\ ToLower(d.acct) # ToLower(connection.accountId)) =>
                  d.ret = "false"

\* canRestoreConnection() answered true for an account the backend spelled in
\* another letter case than the session
C17_Witness ==
    \E d \in Outcomes :
        /\ d.op = "canRestore" /\ d.ret = "true"
        /\ d.acct # connection.accountId

\* C18: checkConnectionHealth() answers true only when a read against the backend
\* was made and succeeded.
C18_HealthyOnlyAfterRead ==
    \A d \in Outcomes :
        d.op = "health" /\ d.ret = "true" => d.read = "ok"

\* C19: a startup restore or a canRestoreConnection() never waits on a request
\* that opens a wallet dialog, and asks for accounts only with eth_accounts; the
\* only operation ever waiting on eth_requestAccounts is a connect() the
\* application called.
C19_NoPromptOutsideConnect ==
    \A i \in DOMAIN tasks :
        /\ tasks[i].op \in {"restore", "canRestore"} =>
              /\ RequestOf(tasks[i].pc) \notin Prompting
              /\ tasks[i].pc \in {"rs_accounts", "cr_accounts"} =>
                    RequestOf(tasks[i].pc) = "eth_accounts"
        /\ RequestOf(tasks[i].pc) = "eth_requestAccounts" =>
              tasks[i].op = "connect" /\ tasks[i].src = "api"

\* a startup restore and a canRestoreConnection() both waiting on eth_accounts
C19_Witness ==
    /\ \E i \in DOMAIN tasks : tasks[i].op = "restore" /\ tasks[i].pc = "rs_accounts"
    /\ \E i \in DOMAIN tasks : tasks[i].op = "canRestore" /\ tasks[i].pc = "cr_accounts"

\* C20: at the step in which a connect resolves, having saved the session, the
\* stored record equals the session in type, account, address, balance, network
\* and chain id and holds no signer and no provider, a fresh manager loading it
\* holds none either, and saving again leaves the store as it is.
C20_StoreRoundTrip ==
    \A d \in Outcomes :
        d.op = "connect" /\ d.pc = "resolved" /\ stored # NoConn =>
            LET loaded == LoadSavedConnection(stored).connection
            IN  /\ \A f \in {"type", "accountId", "address", "balance", "network", "chainId"} :
                      stored[f] = connection[f] /\ loaded[f] = connection[f]
                /\ stored.signer = "none" /\ stored.provider = "none"
                /\ loaded.signer = "none" /\ loaded.provider = "none"
                /\ SaveConnection(SaveConnection(Cur)).stored = SaveConnection(Cur).stored

\* C21: a manager constructed over a store whose content cannot be deserialized
\* is constructed without an exception and has no session, an empty store, no
\* event emitted and no restore started.
C21_GarbageLoadsAsAbsent ==
    \A d \in Outcomes :
        d.op = "load" /\ d.why = "garbage" =>
            /\ d.pc = "resolved"
            /\ connection = NoConn
            /\ stored = NoConn
            /\ emitted = <<>>
            /\ tasks = <<>>
            /\ Len(done) = 1

\* the manager was just constructed over a store holding garbage
C21_Witness ==
    \E d \in Outcomes : d.op = "load" /\ d.why = "garbage" /\ ops = 0

Occurrences(seq, x) == Cardinality({k \in DOMAIN seq : seq[k] = x})

\* C22: at every publish of an event, each callback is called as many times as it
\* is registered for that event at that moment (once per registration, none for
\* callbacks registered only for other events), whatever the other callbacks do
\* short of changing the registrations.
C22_EveryListenerCalledOnce ==
    \A e \in Emitted :
        (\A k \in DOMAIN listeners[e.name] : listeners[e.name][k] \notin {"remover", "adder"}) =>
            \A cb \in Callbacks :
                Occurrences(e.called, cb) = Occurrences(listeners[e.name], cb)

\* C23: when a connect, signMessage or sendTransaction is rejected at the step in
\* which its backend raised an error, the caller gets that very error.
C23_AdapterErrorsUnchanged ==
    \A d \in Outcomes :
        (/\ d.op \in {"connect", "signMessage", "sendTransaction"}
         /\ d.pc = "rejected" /\ d.raised # "") =>
            d.err = d.raised

\* C24: `accountChanged` events follow the order of the backend's notifications:
\* an account update never emits `accountChanged` while an update for another
\* account, started by an earlier notification, is still waiting on its backend.
C24_AccountEventsInArrivalOrder ==
    [][\A i \in DOMAIN tasks :
          (/\ tasks[i].op = "update"
           /\ tasks' = Without(tasks, i)
           /\ \E k \in DOMAIN emitted' :
                 /\ emitted'[k].name = "accountChanged"
                 /\ emitted'[k].payload.accountId = tasks[i].acct) =>
              \A j \in 1..(i - 1) :
                  ~(tasks[j].op = "update" /\ tasks[j].acct # tasks[i].acct)]_vars

\* C25: the reset a session check applies on finding the session unhealthy is
\* never applied while a connect() or a disconnect() is waiting on its backend.
C25_HealthResetDeferred ==
    \A d \in Outcomes :
        d.op = "check" /\ d.why = "unhealthy" =>
            \A j \in DOMAIN tasks : tasks[j].op \notin {"connect", "disconnect"}

\* C26: when the 30 s timer ends a connect to the injected provider, the connect
\* is rejected with the timeout error, and right after it the manager has no
\* session and no persisted descriptor and has emitted no `connected`.
C26_TimeoutLeavesDisconnected ==
    \A d \in Outcomes :
        d.op = "connect" /\ d.type = METAMASK /\ d.raised = ErrTimeout =>
            /\ d.pc = "rejected" /\ d.err = ErrTimeout
            /\ connection = NoConn
            /\ stored = NoConn
            /\ Count("connected") = 0

SignOps == {"signMessage", "sendTransaction"}

\* C27: a signMessage() or sendTransaction() called on a session without a usable
\* signing handle is rejected with an error within the call, starts no backend
\* request, and leaves the session and the persisted descriptor as they were.
C27_NoHandleNoSigning ==
    [][(/\ connection # NoConn
        /\ HandleOf(Cur, connection) # "live"
        /\ \/ /\ Len(tasks') = Len(tasks) + 1
              /\ tasks'[Len(tasks')].op \in SignOps
           \/ /\ tasks' = tasks
              /\ \E k \in DOMAIN done' : done'[k].op \in SignOps) =>
            /\ tasks' = tasks
            /\ \A k \in DOMAIN done' :
                  /\ done'[k].op \in SignOps
                  /\ done'[k].pc = "rejected"
                  /\ done'[k].err # ""
            /\ connection' = connection
            /\ stored' = stored]_vars

\* a signMessage() was just rejected on a session whose signer came from the store
C27_Witness ==
    \E d \in Outcomes :
        /\ d.op = "signMessage" /\ d.pc = "rejected" /\ d.hadSigner = "dead"
        /\ connection # NoConn /\ connection.signer = "dead" /\ stored # NoConn

\* C28: a connect to the injected provider, called with no session and no other
\* connect in flight, that resolves for the account the provider reported yields a
\* session of type metamask on network "testnet" whose account identifier is the
\* reported account in lower case, and emits exactly one `connected`.
C28_InjectedAccountLowerCased ==
    \A d \in Outcomes :
        (/\ d.op = "connect" /\ d.type = METAMASK /\ d.pc = "resolved"
         /\ ~d.hadSession /\ ~d.overlap) =>
            /\ d.conn.type = METAMASK
            /\ d.conn.network = "testnet"
            /\ d.conn.accountId = ToLower(d.acct)
            /\ Count("connected") = 1

BackendSources == {"backend", "metamask", "walletconnect"}

\* C29: a step in which a backend notification is delivered emits each lifecycle
\* event at most once.
C29_OneEventPerNotification ==
    (\E e \in Emitted : e.by \in BackendSources) =>
        \A n \in EventNames : Count(n) <= 1

\* C30: once the manager has no session and no persisted descriptor, the end of an
\* account update or of a startup restore that was still in flight leaves it so
\* and emits nothing.
C30_NoResurrectionAfterDisconnect ==
    [][\A i \in DOMAIN tasks :
          (/\ tasks[i].op \in {"update", "restore"}
           /\ tasks' = Without(tasks, i)
           /\ \E k \in DOMAIN done' : done'[k].op = tasks[i].op
           /\ connection = NoConn /\ stored = NoConn) =>
              /\ connection' = NoConn
              /\ stored' = NoConn
              /\ emitted' = <<>>]_vars

\* C31: the end of a startup restore that finds the session of an explicit connect
\* to another backend (HashPack or WalletConnect) leaves that session as it is and
\* emits no `connected`.
C31_RestoreLeavesConnectedSession ==
    [][\A i \in DOMAIN tasks :
          (/\ tasks[i].op = "restore"
           /\ tasks' = Without(tasks, i)
           /\ \E k \in DOMAIN done' : done'[k].op = "restore"
           /\ connection.type \in {HASHPACK, WALLETCONNECT}) =>
              /\ connection' = connection
              /\ \A k \in DOMAIN emitted' : emitted'[k].name # "connected"]_vars

\* C32: a connect to the injected provider asks for a chain switch only after the
\* provider reported another chain, asks to add the chain only after the switch
\* failed with "unknown chain", and goes on to build the session only after the
\* chain matched or one of the two requests succeeded; a connect rejected by any
\* other switch failure or by a failed add-chain request has built no session,
\* saved nothing and emitted nothing.
C32_ChainSwitchOnceThenAddOnce ==
    /\ \A i \in DOMAIN tasks :
          tasks[i].op = "connect" /\ tasks[i].type = METAMASK =>
              /\ tasks[i].pc = "mm_switch" <=> tasks[i].route = "mismatch"
              /\ tasks[i].pc = "mm_add" <=> tasks[i].route = "unknown"
              /\ tasks[i].pc \in {"mm_signer", "mm_balance"} =>
                    tasks[i].route = "verified"
    /\ \A d \in Outcomes :
          d.op = "connect" /\ d.type = METAMASK =>
              /\ d.pc = "resolved" => d.route = "verified"
              /\ d.route \in {"mismatch", "unknown"} =>
                    /\ d.pc = "rejected" /\ d.raised # ""
                    /\ d.route = "mismatch" => d.raised # ErrUnknownChain
                    /\ d.conn = NoConn
                    /\ emitted = <<>>

\* a connect just rejected because the add-chain request failed
C32_Witness ==
    \E d \in Outcomes :
        /\ d.op = "connect" /\ d.type = METAMASK /\ d.pc = "rejected"
        /\ d.route = "unknown" /\ d.raised = ErrBackend
\* C33: whenever the auth container shows isConnected = true, the manager holds a
\* session (walletConnector.isConnected()), whatever the interleaving of the mount
\* session check with connects, disconnects and account notifications.
C33_UiConnectedImpliesSession ==
    ui.isConnected => connection # NoConn

\* C34: once an account switch has been fully processed (the manager published
\* `accountChanged` for account A and nothing is pending), the connection the auth
\* container holds names A too: its accountId is the manager's.
C34_UiFollowsAccountSwitch ==
    (/\ ui.mounted
     /\ \E e \in Emitted : e.name = "accountChanged"
     /\ tasks = <<>>
     /\ connection # NoConn) =>
        ui.accountId = connection.accountId

\* C35: every `connected` event a connect or a restore publishes is published with
\* the session already in memory and in the store: a listener finds isConnected()
\* true, a stored record of the payload's account, and the payload is what
\* getConnection() returns.
C35_ConnectedAfterSessionSaved ==
    \A e \in Emitted :
        e.name = "connected" =>
            /\ e.seen.connection # NoConn
            /\ e.seen.connection = e.payload
            /\ e.seen.stored # NoConn
            /\ e.seen.stored = Serialize(e.payload)

C35_Witness ==
    /\ \E e \in Emitted : e.name = "connected" /\ e.by = "connect" /\ e.called # <<>>
    /\ \E d \in Outcomes : d.op = "connect" /\ d.pc = "resolved"

\* C36: every `disconnected` event disconnect() publishes is published with the
\* session and the stored record already cleared: a listener finds isConnected()
\* false and no record in the store, and the payload is the session that was active
\* when disconnect() was called.
C36_DisconnectedAfterSessionCleared ==
    /\ \A e \in Emitted :
          e.name = "disconnected" /\ e.by = "disconnect" =>
              /\ e.seen.connection = NoConn
              /\ e.seen.stored = NoConn
              /\ e.payload # NoConn
    /\ \A d \in Outcomes :
          d.op = "disconnect" /\ d.hadSession /\ d.pc = "resolved" =>
              \E e \in Emitted :
                  e.name = "disconnected" /\ e.by = "disconnect" /\ e.payload = d.conn

C36_Witness ==
    /\ \E e \in Emitted : e.name = "disconnected" /\ e.by = "disconnect" /\ e.called # <<>>
    /\ \E d \in Outcomes : d.op = "disconnect" /\ d.pc = "resolved" /\ d.hadSession

\* The members of sequence seq that satisfy Test.
Matching(seq, Test(_)) ==
    Len(SelectSeq(seq, Test))

\* C37: every call of resetConnectionState() publishes exactly one `disconnected`
\* with a null payload, whether or not a session was active, while disconnect()
\* publishes `disconnected` only for a session that existed: a step publishes as
\* many reset events as it made reset calls, and no more disconnect events than
\* it completed disconnects that started with a session.
C37_ResetAlwaysPublishesDisconnected ==
    /\ Matching(emitted, LAMBDA e : e.name = "disconnected" /\ e.by = "reset")
          = Matching(done, LAMBDA d : d.op = "reset")
    /\ \A e \in Emitted : e.by = "reset" => e.name = "disconnected" /\ e.payload = NoConn
    /\ Matching(emitted, LAMBDA e : e.name = "disconnected" /\ e.by = "disconnect")
          <= Matching(done, LAMBDA d : d.op = "disconnect" /\ d.hadSession)

C37_Witness ==
    /\ \E d \in Outcomes : d.op = "reset" /\ ~d.hadSession
    /\ \E e \in Emitted : e.name = "disconnected" /\ e.by = "reset" /\ e.payload = NoConn
    /\ stored = NoConn

GetBalanceOutcome ==
    \A d \in Outcomes :
        d.op = "getBalance" =>
            /\ d.pc \in {"resolved", "rejected"}
            /\ d.pc = "rejected" <=> ~d.hadSession
            /\ d.pc = "rejected" => d.err = ErrNoWallet
            /\ d.pc = "resolved" /\ d.raised # "" => d.bal = "0"

\* No step of getBalance(), neither the call nor the reply that ends it, changes
\* the session (its cached balance included) or the stored record, or publishes
\* an event.
GetBalanceReadsOnly ==
    [][(\/ \E k \in DOMAIN done' : done'[k].op = "getBalance"
        \/ /\ Len(tasks') = Len(tasks) + 1
           /\ tasks'[Len(tasks')].op = "getBalance") =>
            /\ connection' = connection
            /\ stored' = stored
            /\ emitted' = <<>>]_vars

\* C39: getBalance() rejects only when there is no session ('No wallet connected');
\* with a session it always resolves, a failed read yielding '0'; and it leaves the
\* session, its cached balance and the stored record unchanged and publishes nothing.
C39_GetBalanceSwallowsFailure ==
    []GetBalanceOutcome /\ GetBalanceReadsOnly

\* a read of the balance failed at the backend and getBalance() resolved with '0'
C39_Witness ==
    \E d \in Outcomes :
        /\ d.op = "getBalance" /\ d.pc = "resolved" /\ d.hadSession
        /\ d.raised = ErrBackend /\ d.bal = "0"
        /\ connection # NoConn /\ connection.balance # "0"

\* C40: the dashboard hook never has more than one refresh interval running, and
\* it has one exactly while it is mounted, the container shows the wallet connected
\* and the document is visible: none runs once the tab is hidden, the wallet is
\* disconnected or the hook is unmounted.
C40_OneRefreshTimerWhileConnectedAndVisible ==
    /\ dash.timers \in {0, 1}
    /\ dash.timers = 1 <=> (dash.mounted /\ ui.isConnected /\ ~dash.hidden)

\* the wallet is shown connected and the effect is live, but the tab is hidden and
\* no interval runs
C40_Witness ==
    /\ dash.mounted /\ dash.listening /\ ui.isConnected
    /\ dash.hidden /\ dash.timers = 0

====
